---- MODULE Spec2Model ----
(***************************************************************************)
(* A model of HoltCFROIModel (src/HOLT_CFROI.py): the five calculation     *)
(* methods and run_valuation, stepped statement by statement, with the     *)
(* external rate-of-return solver npf.irr as a nondeterministic oracle.    *)
(*                                                                         *)
(* Python values are records [k, n, d]: k is the dynamic type or float     *)
(* class and n/d an exact rational in lowest terms (d > 0).  Float         *)
(* arithmetic is modelled exactly (no rounding, no overflow): the amounts  *)
(* of the model are small.  The content of a str is abstracted away.       *)
(***************************************************************************)
EXTENDS Integers, Sequences, FiniteSets

\* ------------------------------------------------------------- bounds
\* Largest asset life (in periods) a direct calculate_cfroi call is given.
MaxLife == 3
\* Largest gross cash flow / gross investment a direct call is given.
MaxAmount == 2
\* Number of fields of the example record a run_valuation input may differ in.
MaxEdits == 3

\* ------------------------------------------------------------- values
V(k, n, d) == [k |-> k, n |-> n, d |-> d]

Abs(i) == IF i < 0 THEN -i ELSE i

RECURSIVE GCD(_, _)
GCD(a, b) == IF b = 0 THEN a ELSE GCD(b, a % b)

\* The rational n/d (d # 0) of kind k, in lowest terms with d > 0.
Norm(k, n, d) ==
    LET g == GCD(Abs(n), Abs(d))
        s == IF d < 0 THEN -1 ELSE 1
    IN  V(k, (s * n) \div g, Abs(d) \div g)

PInt(i) == V("int", i, 1)
PFloat(n, d) == Norm("float", n, d)
NaN == V("nan", 0, 1)
PosInf == V("inf", 0, 1)
NegInf == V("ninf", 0, 1)
Str == V("str", 0, 1)
\* The outcome of evaluating an expression that raises an Exception.
Raise == V("raise", 0, 1)
\* An absent dictionary key, and a local not yet assigned.
Missing == V("missing", 0, 1)
Unset == V("unset", 0, 1)

Finite(a) == a.k \in {"int", "float"}
\* isinstance(a, (int, float)): every float class, no str.
IsNumber(a) == a.k \in {"int", "float", "nan", "inf", "ninf"}
Sign(a) ==
    IF a.k = "inf" THEN 1
    ELSE IF a.k = "ninf" THEN -1
    ELSE IF a.n > 0 THEN 1 ELSE IF a.n < 0 THEN -1 ELSE 0
Kind2(a, b) == IF a.k = "int" /\ b.k = "int" THEN "int" ELSE "float"
\* Numerically equal (1 == 1.0 in Python); NaN equals nothing.
NumEq(a, b) ==
    /\ IsNumber(a) /\ IsNumber(b)
    /\ a.k # "nan" /\ b.k # "nan"
    /\ IF Finite(a) /\ Finite(b) THEN a.n = b.n /\ a.d = b.d
       ELSE ~Finite(a) /\ a.k = b.k

\* ------------------------------------------------- Python arithmetic
PyNeg(a) ==
    IF ~IsNumber(a) THEN Raise
    ELSE IF a.k = "nan" THEN NaN
    ELSE IF a.k = "inf" THEN NegInf
    ELSE IF a.k = "ninf" THEN PosInf
    ELSE V(a.k, -a.n, a.d)

PyAdd(a, b) ==
    IF a.k = "str" /\ b.k = "str" THEN Str
    ELSE IF ~IsNumber(a) \/ ~IsNumber(b) THEN Raise
    ELSE IF a.k = "nan" \/ b.k = "nan" THEN NaN
    ELSE IF ~Finite(a) /\ ~Finite(b) THEN (IF a.k = b.k THEN a ELSE NaN)
    ELSE IF ~Finite(a) THEN a
    ELSE IF ~Finite(b) THEN b
    ELSE Norm(Kind2(a, b), a.n * b.d + b.n * a.d, a.d * b.d)

PySub(a, b) ==
    IF ~IsNumber(a) \/ ~IsNumber(b) THEN Raise ELSE PyAdd(a, PyNeg(b))

PyMul(a, b) ==
    IF (a.k = "str" /\ b.k = "int") \/ (a.k = "int" /\ b.k = "str") THEN Str
    ELSE IF ~IsNumber(a) \/ ~IsNumber(b) THEN Raise
    ELSE IF a.k = "nan" \/ b.k = "nan" THEN NaN
    ELSE IF ~Finite(a) \/ ~Finite(b)
         THEN (IF Sign(a) * Sign(b) = 0 THEN NaN
               ELSE IF Sign(a) * Sign(b) > 0 THEN PosInf ELSE NegInf)
    ELSE Norm(Kind2(a, b), a.n * b.n, a.d * b.d)

\* a / b: true division, a float; ZeroDivisionError on a zero divisor.
PyDiv(a, b) ==
    IF ~IsNumber(a) \/ ~IsNumber(b) THEN Raise
    ELSE IF Finite(b) /\ b.n = 0 THEN Raise
    ELSE IF a.k = "nan" \/ b.k = "nan" THEN NaN
    ELSE IF ~Finite(a) /\ ~Finite(b) THEN NaN
    ELSE IF ~Finite(a)
         THEN (IF Sign(a) * Sign(b) > 0 THEN PosInf ELSE NegInf)
    ELSE IF ~Finite(b) THEN PFloat(0, 1)
    ELSE Norm("float", a.n * b.d, a.d * b.n)

\* a ** e for a Python int e >= 0 (x ** 0 is 1 for every number x).
RECURSIVE PyPow(_, _)
PyPow(a, e) ==
    IF ~IsNumber(a) THEN Raise
    ELSE IF e = 0 THEN (IF a.k = "int" THEN PInt(1) ELSE PFloat(1, 1))
    ELSE PyMul(a, PyPow(a, e - 1))

\* a <= 0, a > 0 and 0.0 > a: TRUE/FALSE; comparing a str with a number raises.
CmpRaises(a) == ~IsNumber(a)
PyLe0(a) == a.k = "ninf" \/ (Finite(a) /\ a.n <= 0)
PyGt0(a) == a.k = "inf" \/ (Finite(a) /\ a.n > 0)
PyLt0(a) == a.k = "ninf" \/ (Finite(a) /\ a.n < 0)

\* PyInt with a fault: the life is rounded up instead of truncated.
PyInt_Ceil(a) == IF a.n % a.d = 0 THEN a.n \div a.d ELSE (a.n \div a.d) + 1

\* int(a): truncation toward zero; ValueError on nan, OverflowError on inf.
IntRaises(a) == ~Finite(a)
PyInt(a) == IF a.n >= 0 THEN a.n \div a.d ELSE -((-a.n) \div a.d)

\* PyIsNa with a fault: the nan test never fires.
PyIsNa_Never(a) == FALSE

\* pd.isna(x) for a scalar.
PyIsNa(a) == a.k = "nan"

\* PyMax0 with a fault: the rate is returned without the clamp at 0.0.
PyMax0_NoClamp(a) == a

\* max(a, 0.0): Python keeps the first argument unless the second is greater.
PyMax0(a) == IF PyLt0(a) THEN PFloat(0, 1) ELSE a

\* dict[key] raises KeyError on an absent key; dict.get(key, default) does not.
Item(d, key) == IF d[key].k = "missing" THEN Raise ELSE d[key]
GetDefault(d, key, default) == IF d[key].k = "missing" THEN default ELSE d[key]
\* An argument whose evaluation raised: the call is never made.
AnyRaise(S) == \E v \in S : v.k = "raise"

\* -------------------------------------------------------- the state
VARIABLES
    inflation_rate,     \* self.inflation_rate
    pc,                 \* the statement about to run
    op,                 \* the method the caller invoked
    caller,             \* who called calculate_cfroi
    company_data,       \* run_valuation's argument (the caller's dict)
    given,              \* the arguments as the caller passed them
    gross_investment, gross_cash_flow, asset_life, cfroi, economic_profit,
                        \* run_valuation's locals
    cf,                 \* calculate_cfroi's parameters
    cash_flows, years, year, irr,
                        \* calculate_cfroi's locals (irr is its `cfroi`)
    irr_in, irr_out,    \* what npf.irr was called with and what it did
    cf_ret,             \* calculate_cfroi's return value
    result,             \* run_valuation's return value
    ret,                \* the return value of a direct call
    raised,             \* an exception reached the caller
    ref                 \* an earlier run_valuation, kept for comparison

\* ------------------------------------------------- the pure methods
\* calculate_gross_investment with a fault: the result depends on whether the
\* instance has produced a result before.
calculate_gross_investment_stateful(gross_assets_, accumulated_depreciation_, inflation_adjustment_) ==
    IF ref.set
    THEN PyMul(PyMul(PySub(gross_assets_, accumulated_depreciation_),
                     inflation_adjustment_), PyAdd(PInt(1), inflation_rate))
    ELSE PyMul(PySub(gross_assets_, accumulated_depreciation_), inflation_adjustment_)

calculate_gross_investment(gross_assets_, accumulated_depreciation_, inflation_adjustment_) ==
    PyMul(PySub(gross_assets_, accumulated_depreciation_), inflation_adjustment_)

calculate_gross_cash_flow(net_income_, depreciation_, interest_expense_, rent_expense_) ==
    PyAdd(PyAdd(PyAdd(net_income_, depreciation_),
                PyMul(interest_expense_, PFloat(7, 10))),
          rent_expense_)

\* calculate_asset_life with a fault: the test is depreciation >= 0.
calculate_asset_life_ge(gross_assets_, depreciation_) ==
    IF CmpRaises(depreciation_) THEN Raise
    ELSE IF PyGt0(depreciation_) \/ (Finite(depreciation_) /\ depreciation_.n = 0)
         THEN PyDiv(gross_assets_, depreciation_)
    ELSE PInt(0)

calculate_asset_life(gross_assets_, depreciation_) ==
    IF CmpRaises(depreciation_) THEN Raise
    ELSE IF PyGt0(depreciation_) THEN PyDiv(gross_assets_, depreciation_)
    ELSE PInt(0)

\* calculate_economic_profit with a fault: no isinstance guard.
calculate_economic_profit_unguarded(cfroi_, cost_of_capital_, gross_investment_) ==
    PyMul(PySub(cfroi_, cost_of_capital_), gross_investment_)

calculate_economic_profit(cfroi_, cost_of_capital_, gross_investment_) ==
    IF ~IsNumber(cfroi_) \/ ~IsNumber(cost_of_capital_) THEN PFloat(0, 1)
    ELSE PyMul(PySub(cfroi_, cost_of_capital_), gross_investment_)

\* Degenerate with a fault: gross_cash_flow is not tested.
Degenerate_NoCashFlowTest(c) ==
    IF CmpRaises(c.asset_life) THEN "raise"
    ELSE IF PyLe0(c.asset_life) THEN "return"
    ELSE IF CmpRaises(c.gross_investment) THEN "raise"
    ELSE IF PyLe0(c.gross_investment) THEN "return"
    ELSE "go"

\* The test of calculate_cfroi's first statement; `or` evaluates left to right
\* and stops at the first true operand.
Degenerate(c) ==
    IF CmpRaises(c.asset_life) THEN "raise"
    ELSE IF PyLe0(c.asset_life) THEN "return"
    ELSE IF CmpRaises(c.gross_investment) THEN "raise"
    ELSE IF PyLe0(c.gross_investment) THEN "return"
    ELSE IF CmpRaises(c.gross_cash_flow) THEN "raise"
    ELSE IF PyLe0(c.gross_cash_flow) THEN "return"
    ELSE "go"

\* gross_cash_flow * (1 - fade_rate) ** year
projected_cf(c, year_) ==
    PyMul(c.gross_cash_flow, PyPow(PySub(PInt(1), c.fade_rate), year_))

\* AddSalvage with a fault: the salvage value is appended as a period of its own.
AddSalvage_Append(flows, c) ==
    Append(flows, PyMul(c.gross_investment, PFloat(1, 10)))

\* salvage_value = gross_investment * 0.1; cash_flows[-1] += salvage_value
AddSalvage(flows, c) ==
    [flows EXCEPT ![Len(flows)] = PyAdd(@, PyMul(c.gross_investment, PFloat(1, 10)))]

\* The binding of calculate_cfroi's parameters to the positional arguments.
CfroiFrame(a1, a2, a3, a4) ==
    [gross_cash_flow |-> a1, gross_investment |-> a2,
     asset_life |-> a3, fade_rate |-> a4]

\* ------------------------------------------------------- the inputs
Fields == {"gross_assets", "accumulated_depreciation", "net_income",
           "depreciation", "interest_expense", "rent_expense",
           "inflation_adjustment", "fade_rate", "cost_of_capital"}
ResultFields == {"cfroi", "economic_profit", "gross_investment",
                 "gross_cash_flow", "asset_life"}

\* The example record of the source, scaled down: gross investment 2, gross
\* cash flow 10 and an asset life of 2 periods.
ExampleData ==
    [gross_assets |-> PInt(4), accumulated_depreciation |-> PInt(2),
     net_income |-> PInt(1), depreciation |-> PInt(2),
     interest_expense |-> PInt(10), rent_expense |-> PInt(0),
     inflation_adjustment |-> Missing, fade_rate |-> PFloat(1, 25),
     cost_of_capital |-> PFloat(2, 25)]

\* What each field may hold instead.
Alternatives ==
    [gross_assets |-> {Missing, PInt(6), PFloat(4, 1)},
     accumulated_depreciation |-> {Missing, PInt(4)},
     net_income |-> {Missing, PInt(-20), Str, NaN},
     depreciation |-> {Missing, PInt(0), PInt(8), PInt(-2)},
     interest_expense |-> {Missing, PInt(0)},
     rent_expense |-> {Missing, PInt(1)},
     inflation_adjustment |-> {PInt(2), Str},
     fade_rate |-> {Missing, PFloat(1, 2), Str},
     cost_of_capital |-> {Missing, Str}]

\* The records that differ from the example in at most k fields.
RECURSIVE Edited(_)
Edited(k) ==
    IF k = 0 THEN {ExampleData}
    ELSE LET prev == Edited(k - 1)
         IN  prev \cup UNION {{[r EXCEPT ![f] = v] : v \in Alternatives[f]} :
                                 r \in prev, f \in Fields}
Records == Edited(MaxEdits)

\* The arguments of the direct calls.
Amounts == {PInt(i) : i \in -1..MaxAmount} \cup {NaN, PosInf, Str}
Lives == {PFloat(i, 2) : i \in -1..(2 * MaxLife)} \cup {NaN, PosInf, NegInf}
Fades == {PFloat(1, 25), PFloat(1, 2), PInt(2)}
Rates == {PFloat(1, 10), PInt(0), NaN, Str}
Benchmarks == {PFloat(2, 25), PInt(1), Str}

\* The inputs of the runs that are compared with one another.
RepeatRecords ==
    {ExampleData,
     [ExampleData EXCEPT !.depreciation = PInt(0)],
     [ExampleData EXCEPT !.rent_expense = Missing],
     [ExampleData EXCEPT !.inflation_adjustment = Str],
     [ExampleData EXCEPT !.gross_assets = PInt(6), !.fade_rate = PFloat(1, 2)]}
RepeatAmounts == {PInt(0), PInt(2)}
RepeatLives == {PFloat(1, 2), PInt(1)}

\* What npf.irr may do with a cash-flow sequence: return a rate of either
\* sign, return nan, or raise.
IrrRates == {PFloat(-1, 2), PFloat(0, 1), PFloat(1, 10), PFloat(3, 1)}
IrrOutcomes == IrrRates \cup {NaN, Raise}

vars == <<inflation_rate, pc, op, caller, company_data, given,
          gross_investment, gross_cash_flow, asset_life, cfroi, economic_profit,
          cf, cash_flows, years, year, irr, irr_in, irr_out, cf_ret,
          result, ret, raised, ref>>

rvLocals == <<gross_investment, gross_cash_flow, asset_life, cfroi, economic_profit>>
cfLocals == <<cash_flows, years, year, irr, irr_in, irr_out>>
callerVars == <<inflation_rate, op, caller, company_data, given, ref>>

NoData == [f \in Fields |-> Missing]
NoFrame == CfroiFrame(Unset, Unset, Unset, Unset)
NoResult == [f \in {} |-> Unset]
NoRef == [set |-> FALSE, input |-> NoData, irr_in |-> <<>>, irr_out |-> Unset,
          result |-> NoResult]
Zero == PFloat(0, 1)

Init ==
    /\ inflation_rate = PFloat(1, 50)
    /\ pc = "idle" /\ op = "none" /\ caller = "none"
    /\ company_data = NoData /\ given = <<>>
    /\ gross_investment = Unset /\ gross_cash_flow = Unset /\ asset_life = Unset
    /\ cfroi = Unset /\ economic_profit = Unset
    /\ cf = NoFrame /\ cash_flows = <<>> /\ years = 0 /\ year = 0 /\ irr = Unset
    /\ irr_in = <<>> /\ irr_out = Unset /\ cf_ret = Unset
    /\ result = NoResult /\ ret = Unset /\ raised = FALSE
    /\ ref = NoRef

\* ---------------------------------------------------- run_valuation
\* The variables calculate_cfroi's statements never touch.
rvKeep == <<gross_investment, gross_cash_flow, asset_life, economic_profit, result>>
\* The variables calculate_cfroi's exits set.
exitVars == <<cf_ret, cfroi, ret, raised>>
cfAll == <<cf, cash_flows, years, year, irr, irr_in, irr_out, cf_ret>>

Call_run_valuation(Data) ==
    /\ pc = "idle"
    /\ \E d \in Data : company_data' = d /\ given' = <<d>>
    /\ op' = "run_valuation"
    /\ pc' = "rv_gross_investment"
    /\ UNCHANGED <<inflation_rate, caller, ref, rvLocals, cfAll, result, ret, raised>>

\* gross_investment = self.calculate_gross_investment(...)
rv_gross_investment ==
    /\ pc = "rv_gross_investment"
    /\ LET a1 == Item(company_data, "gross_assets")
           a2 == Item(company_data, "accumulated_depreciation")
           a3 == GetDefault(company_data, "inflation_adjustment", PFloat(1, 1))
           v  == IF AnyRaise({a1, a2, a3}) THEN Raise
                 ELSE calculate_gross_investment(a1, a2, a3)
       IN  IF v.k = "raise"
           THEN pc' = "rv_except" /\ UNCHANGED gross_investment
           ELSE pc' = "rv_gross_cash_flow" /\ gross_investment' = v
    /\ UNCHANGED <<callerVars, gross_cash_flow, asset_life, cfroi, economic_profit,
                   cfAll, result, ret, raised>>

\* gross_cash_flow = self.calculate_gross_cash_flow(...)
rv_gross_cash_flow ==
    /\ pc = "rv_gross_cash_flow"
    /\ LET a1 == Item(company_data, "net_income")
           a2 == Item(company_data, "depreciation")
           a3 == Item(company_data, "interest_expense")
           a4 == Item(company_data, "rent_expense")
           v  == IF AnyRaise({a1, a2, a3, a4}) THEN Raise
                 ELSE calculate_gross_cash_flow(a1, a2, a3, a4)
       IN  IF v.k = "raise"
           THEN pc' = "rv_except" /\ UNCHANGED gross_cash_flow
           ELSE pc' = "rv_asset_life" /\ gross_cash_flow' = v
    /\ UNCHANGED <<callerVars, gross_investment, asset_life, cfroi, economic_profit,
                   cfAll, result, ret, raised>>

\* asset_life = self.calculate_asset_life(...)
rv_asset_life ==
    /\ pc = "rv_asset_life"
    /\ LET a1 == Item(company_data, "gross_assets")
           a2 == Item(company_data, "depreciation")
           v  == IF AnyRaise({a1, a2}) THEN Raise ELSE calculate_asset_life(a1, a2)
       IN  IF v.k = "raise"
           THEN pc' = "rv_except" /\ UNCHANGED asset_life
           ELSE pc' = "rv_cfroi" /\ asset_life' = v
    /\ UNCHANGED <<callerVars, gross_investment, gross_cash_flow, cfroi,
                   economic_profit, cfAll, result, ret, raised>>

\* rv_cfroi with a fault: gross_investment and gross_cash_flow passed in each
\* other's place.
rv_cfroi_swapped ==
    /\ pc = "rv_cfroi"
    /\ cf' = CfroiFrame(gross_investment, gross_cash_flow, asset_life,
                        GetDefault(company_data, "fade_rate", PFloat(1, 25)))
    /\ caller' = "run_valuation"
    /\ pc' = "cf_guard"
    /\ UNCHANGED <<inflation_rate, op, company_data, given, ref, rvLocals,
                   cash_flows, years, year, irr, irr_in, irr_out, cf_ret,
                   result, ret, raised>>

\* cfroi = self.calculate_cfroi(...): the call; the assignment is CfReturn's.
rv_cfroi ==
    /\ pc = "rv_cfroi"
    /\ cf' = CfroiFrame(gross_cash_flow, gross_investment, asset_life,
                        GetDefault(company_data, "fade_rate", PFloat(1, 25)))
    /\ caller' = "run_valuation"
    /\ pc' = "cf_guard"
    /\ UNCHANGED <<inflation_rate, op, company_data, given, ref, rvLocals,
                   cash_flows, years, year, irr, irr_in, irr_out, cf_ret,
                   result, ret, raised>>

\* economic_profit = self.calculate_economic_profit(...)
rv_economic_profit ==
    /\ pc = "rv_economic_profit"
    /\ LET v == calculate_economic_profit(
                    cfroi, GetDefault(company_data, "cost_of_capital", PFloat(2, 25)),
                    gross_investment)
       IN  IF v.k = "raise"
           THEN pc' = "rv_except" /\ UNCHANGED economic_profit
           ELSE pc' = "rv_return" /\ economic_profit' = v
    /\ UNCHANGED <<callerVars, gross_investment, gross_cash_flow, asset_life, cfroi,
                   cfAll, result, ret, raised>>

\* return {...}
rv_return ==
    /\ pc = "rv_return"
    /\ result' = [cfroi |-> cfroi, economic_profit |-> economic_profit,
                  gross_investment |-> gross_investment,
                  gross_cash_flow |-> gross_cash_flow, asset_life |-> asset_life]
    /\ pc' = "done"
    /\ UNCHANGED <<callerVars, rvLocals, cfAll, ret, raised>>

\* rv_except with a fault: the values computed before the failure are returned.
rv_except_partial ==
    /\ pc = "rv_except"
    /\ result' = [f \in ResultFields |->
                    LET v == CASE f = "cfroi" -> cfroi
                               [] f = "economic_profit" -> economic_profit
                               [] f = "gross_investment" -> gross_investment
                               [] f = "gross_cash_flow" -> gross_cash_flow
                               [] OTHER -> asset_life
                    IN  IF v = Unset THEN Zero ELSE v]
    /\ pc' = "done"
    /\ UNCHANGED <<callerVars, rvLocals, cfAll, ret, raised>>

\* except Exception: return the all-zero dict
rv_except ==
    /\ pc = "rv_except"
    /\ result' = [f \in ResultFields |-> Zero]
    /\ pc' = "done"
    /\ UNCHANGED <<callerVars, rvLocals, cfAll, ret, raised>>

\* --------------------------------------------------- calculate_cfroi
\* `return v`: to run_valuation's assignment of cfroi, or to the direct caller.
CfReturn(v) ==
    /\ cf_ret' = v
    /\ raised' = raised
    /\ IF caller = "run_valuation"
       THEN cfroi' = v /\ pc' = "rv_economic_profit" /\ ret' = ret
       ELSE ret' = v /\ pc' = "done" /\ cfroi' = cfroi

\* An exception raised outside the try block leaves calculate_cfroi.
CfPropagate ==
    /\ UNCHANGED <<cf_ret, cfroi, ret>>
    /\ IF caller = "run_valuation"
       THEN pc' = "rv_except" /\ raised' = raised
       ELSE pc' = "done" /\ raised' = TRUE

Call_calculate_cfroi(Flows, Investments, Ls, Fs) ==
    /\ pc = "idle"
    /\ \E a1 \in Flows, a2 \in Investments, a3 \in Ls, a4 \in Fs :
          /\ cf' = CfroiFrame(a1, a2, a3, a4)
          /\ given' = <<a1, a2, a3, a4>>
    /\ op' = "calculate_cfroi"
    /\ caller' = "direct"
    /\ pc' = "cf_guard"
    /\ UNCHANGED <<inflation_rate, company_data, ref, rvLocals,
                   cash_flows, years, year, irr, irr_in, irr_out, cf_ret,
                   result, ret, raised>>

\* if asset_life <= 0 or gross_investment <= 0 or gross_cash_flow <= 0: return 0.0
cf_guard ==
    /\ pc = "cf_guard"
    /\ LET t == Degenerate(cf)
       IN  IF t = "raise" THEN CfPropagate
           ELSE IF t = "return" THEN CfReturn(Zero)
           ELSE pc' = "cf_init" /\ UNCHANGED exitVars
    /\ UNCHANGED <<callerVars, rvKeep, cf, cfLocals>>

\* cash_flows = [-gross_investment]
cf_init ==
    /\ pc = "cf_init"
    /\ cash_flows' = <<PyNeg(cf.gross_investment)>>
    /\ pc' = "cf_range"
    /\ UNCHANGED <<callerVars, rvKeep, exitVars, cf, years, year, irr, irr_in, irr_out>>

\* range(int(asset_life))
cf_range ==
    /\ pc = "cf_range"
    /\ IF IntRaises(cf.asset_life)
       THEN pc' = "cf_except" /\ UNCHANGED <<years, year>>
       ELSE pc' = "cf_loop" /\ years' = PyInt(cf.asset_life) /\ year' = 0
    /\ UNCHANGED <<callerVars, rvKeep, exitVars, cf, cash_flows, irr, irr_in, irr_out>>

\* for year in ...: cash_flows.append(projected_cf)
cf_loop ==
    /\ pc = "cf_loop"
    /\ IF year < years
       THEN LET v == projected_cf(cf, year)
            IN  IF v.k = "raise"
                THEN pc' = "cf_except" /\ UNCHANGED <<cash_flows, year>>
                ELSE /\ cash_flows' = Append(cash_flows, v)
                     /\ year' = year + 1
                     /\ pc' = "cf_loop"
       ELSE pc' = "cf_salvage" /\ UNCHANGED <<cash_flows, year>>
    /\ UNCHANGED <<callerVars, rvKeep, exitVars, cf, years, irr, irr_in, irr_out>>

\* cash_flows[-1] += salvage_value
cf_salvage ==
    /\ pc = "cf_salvage"
    /\ cash_flows' = AddSalvage(cash_flows, cf)
    /\ pc' = "cf_irr"
    /\ UNCHANGED <<callerVars, rvKeep, exitVars, cf, years, year, irr, irr_in, irr_out>>

\* cfroi = npf.irr(cash_flows); the solver is a function of its argument.
cf_irr ==
    /\ pc = "cf_irr"
    /\ \E out \in IrrOutcomes :
          /\ (ref.set /\ ref.irr_in = cash_flows) => out = ref.irr_out
          /\ irr_in' = cash_flows
          /\ irr_out' = out
          /\ IF out.k = "raise"
             THEN pc' = "cf_except" /\ UNCHANGED irr
             ELSE pc' = "cf_isna" /\ irr' = out
    /\ UNCHANGED <<callerVars, rvKeep, exitVars, cf, cash_flows, years, year>>

\* if pd.isna(cfroi): return 0.0
cf_isna ==
    /\ pc = "cf_isna"
    /\ IF PyIsNa(irr) THEN CfReturn(Zero)
       ELSE pc' = "cf_max" /\ UNCHANGED exitVars
    /\ UNCHANGED <<callerVars, rvKeep, cf, cfLocals>>

\* return max(cfroi, 0.0)
cf_max ==
    /\ pc = "cf_max"
    /\ CfReturn(PyMax0(irr))
    /\ UNCHANGED <<callerVars, rvKeep, cf, cfLocals>>

\* except Exception: return 0.0
cf_except ==
    /\ pc = "cf_except"
    /\ CfReturn(Zero)
    /\ UNCHANGED <<callerVars, rvKeep, cf, cfLocals>>

\* ------------------------------------------------ the other methods
Call_calculate_asset_life(Assets, Depreciations) ==
    /\ pc = "idle"
    /\ \E a1 \in Assets, a2 \in Depreciations :
          /\ given' = <<a1, a2>>
          /\ LET v == calculate_asset_life(a1, a2)
             IN  IF v.k = "raise" THEN raised' = TRUE /\ ret' = ret
                 ELSE raised' = raised /\ ret' = v
    /\ op' = "calculate_asset_life"
    /\ pc' = "done"
    /\ UNCHANGED <<inflation_rate, caller, company_data, ref, rvLocals, cfAll, result>>

Call_calculate_economic_profit(Cfrois, Costs, Investments) ==
    /\ pc = "idle"
    /\ \E a1 \in Cfrois, a2 \in Costs, a3 \in Investments :
          /\ given' = <<a1, a2, a3>>
          /\ LET v == calculate_economic_profit(a1, a2, a3)
             IN  IF v.k = "raise" THEN raised' = TRUE /\ ret' = ret
                 ELSE raised' = raised /\ ret' = v
    /\ op' = "calculate_economic_profit"
    /\ pc' = "done"
    /\ UNCHANGED <<inflation_rate, caller, company_data, ref, rvLocals, cfAll, result>>

\* The call is over: its frames are gone, the instance is ready for the next.
Finish ==
    /\ pc = "done"
    /\ pc' = "idle" /\ op' = "none" /\ caller' = "none"
    /\ company_data' = NoData /\ given' = <<>>
    /\ gross_investment' = Unset /\ gross_cash_flow' = Unset /\ asset_life' = Unset
    /\ cfroi' = Unset /\ economic_profit' = Unset
    /\ cf' = NoFrame /\ cash_flows' = <<>> /\ years' = 0 /\ year' = 0 /\ irr' = Unset
    /\ irr_in' = <<>> /\ irr_out' = Unset /\ cf_ret' = Unset
    /\ result' = NoResult /\ ret' = Unset /\ raised' = FALSE
    /\ UNCHANGED <<inflation_rate, ref>>

\* Keep a finished run_valuation to compare later runs with.
Remember ==
    /\ pc = "done" /\ op = "run_valuation" /\ ~ref.set
    /\ ref' = [set |-> TRUE, input |-> given[1], irr_in |-> irr_in,
               irr_out |-> irr_out, result |-> result]
    /\ UNCHANGED <<inflation_rate, pc, op, caller, company_data, given, rvLocals,
                   cfAll, result, ret, raised>>

Step ==
    \/ rv_gross_investment \/ rv_gross_cash_flow \/ rv_asset_life \/ rv_cfroi
    \/ rv_economic_profit \/ rv_return \/ rv_except
    \/ cf_guard \/ cf_init \/ cf_range \/ cf_loop \/ cf_salvage \/ cf_irr
    \/ cf_isna \/ cf_max \/ cf_except
    \/ Finish

Next ==
    \/ Call_run_valuation(Records)
    \/ Call_calculate_cfroi(Amounts, Amounts, Lives, Fades)
    \/ Call_calculate_asset_life(Amounts, Amounts)
    \/ Call_calculate_economic_profit(Rates, Benchmarks, Amounts)
    \/ Step

Spec == Init /\ [][Next]_vars

NextRepeat ==
    \/ Call_run_valuation(RepeatRecords)
    \/ Call_calculate_cfroi(RepeatAmounts, RepeatAmounts, RepeatLives, Fades)
    \/ Call_calculate_asset_life(RepeatAmounts, RepeatAmounts)
    \/ Call_calculate_economic_profit(Rates, Benchmarks, RepeatAmounts)
    \/ Step
    \/ Remember

SpecRepeat == Init /\ [][NextRepeat]_vars

\* ------------------------------------------------------- the claims
Required == {"gross_assets", "accumulated_depreciation", "net_income",
             "depreciation", "interest_expense", "rent_expense"}
AllZero == [f \in ResultFields |-> Zero]
\* run_valuation has returned to its caller.
RvDone == pc = "done" /\ op = "run_valuation"
\* calculate_cfroi was called and control has left it.
CfExited ==
    /\ cf # NoFrame
    /\ pc \in {"rv_economic_profit", "rv_return", "rv_except", "done"}
CfNumeric ==
    /\ IsNumber(cf.gross_cash_flow) /\ IsNumber(cf.gross_investment)
    /\ IsNumber(cf.asset_life) /\ IsNumber(cf.fade_rate)
CfPositive ==
    PyGt0(cf.asset_life) /\ PyGt0(cf.gross_investment) /\ PyGt0(cf.gross_cash_flow)
CfSomeNonPositive ==
    PyLe0(cf.asset_life) \/ PyLe0(cf.gross_investment) \/ PyLe0(cf.gross_cash_flow)

\* C1: whenever calculate_cfroi has been called with numeric arguments and
\* control has left it, it has returned (not raised) a finite rate >= 0,
\* whatever npf.irr did: returned a rate of any sign, returned nan, or raised.
C1_FiniteNonNegative ==
    (CfExited /\ CfNumeric) =>
        /\ Finite(cf_ret) /\ cf_ret.n >= 0
        /\ (caller = "direct" => ~raised /\ ret = cf_ret)
\* A direct call with a nan cash flow, on which the solver returned a
\* negative rate, has returned 0.0.
C1_Witness ==
    /\ pc = "done" /\ op = "calculate_cfroi"
    /\ given[1] = NaN /\ irr_out = PFloat(-1, 2) /\ ret = Zero /\ ~raised

\* C2 as stated: a non-positive numeric argument makes calculate_cfroi return
\* 0.0 with no cash-flow sequence built and no solver call, and the solver is
\* only ever called once all three arguments were found strictly positive.
C2_Original ==
    /\ (CfExited /\ CfNumeric /\ CfSomeNonPositive) =>
          cf_ret = Zero /\ cash_flows = <<>> /\ irr_in = <<>>
    /\ (irr_in # <<>>) => CfPositive
\* C2 as amended: the same, but the solver call (and the construction of the
\* sequence) happens once none of the three arguments was found <= 0; a nan
\* argument is not <= 0 and reaches the solver without being positive.
C2_ShortCircuit ==
    /\ (CfExited /\ CfNumeric /\ CfSomeNonPositive) =>
          cf_ret = Zero /\ cash_flows = <<>> /\ irr_in = <<>>
    /\ (cash_flows # <<>> \/ irr_in # <<>>) =>
          /\ IsNumber(cf.asset_life) /\ ~PyLe0(cf.asset_life)
          /\ IsNumber(cf.gross_investment) /\ ~PyLe0(cf.gross_investment)
          /\ IsNumber(cf.gross_cash_flow) /\ ~PyLe0(cf.gross_cash_flow)
\* A direct call with a positive life and investment and a zero cash flow has
\* returned 0.0 without building a sequence.
C2_Witness ==
    /\ pc = "done" /\ op = "calculate_cfroi"
    /\ given[1] = PInt(0) /\ given[2] = PInt(1) /\ given[3] = PFloat(2, 1)
    /\ ret = Zero /\ cash_flows = <<>> /\ irr_in = <<>>

\* C3: run_valuation always returns a dict of exactly the five fields and
\* never lets an exception reach its caller; when a required key is absent, or
\* the pipeline did not run to its end (a step raised, so a local was never
\* assigned), every one of the five fields is 0.0.
C3_AllOrNothing ==
    RvDone =>
        /\ DOMAIN result = ResultFields
        /\ ~raised
        /\ (\E f \in Required : company_data[f] = Missing) => result = AllZero
        /\ (\E v \in {gross_investment, gross_cash_flow, asset_life, cfroi,
                      economic_profit} : v = Unset) => result = AllZero
\* A run that failed in its last step, after gross investment, gross cash flow,
\* asset life and cfroi had all been computed, has returned the all-zero dict.
C3_Witness ==
    /\ RvDone /\ result = AllZero
    /\ gross_cash_flow = PFloat(8, 1) /\ gross_investment = Str
    /\ asset_life = PInt(0) /\ cfroi = Zero /\ economic_profit = Unset

\* C4: after a call of calculate_cfroi with three strictly positive arguments
\* that reached the solver, the return value is 0.0 if the solver raised, 0.0
\* if it returned nan, 0.0 if it returned a negative rate, and otherwise
\* exactly the rate it returned.
C4_FailurePolicy ==
    (CfExited /\ CfPositive /\ irr_in # <<>>) =>
        /\ irr_out = Raise => cf_ret = Zero
        /\ irr_out = NaN => cf_ret = Zero
        /\ (irr_out \in IrrRates /\ irr_out.n < 0) => cf_ret = Zero
        /\ (irr_out \in IrrRates /\ irr_out.n >= 0) => cf_ret = irr_out
\* A direct call has returned the solver's positive rate as it was.
C4_Witness ==
    /\ pc = "done" /\ op = "calculate_cfroi" /\ CfPositive
    /\ irr_out = PFloat(3, 1) /\ ret = PFloat(3, 1)

\* C5: for three strictly positive arguments and n = floor(asset_life) >= 1,
\* the sequence the solver is called with has n + 1 elements: -gross_investment,
\* then gross_cash_flow * (1 - fade_rate)^t for t = 0..n-2, and last
\* gross_cash_flow * (1 - fade_rate)^(n-1) + 0.1 * gross_investment.
C5_CashFlowShape ==
    (irr_in # <<>> /\ CfPositive /\ Finite(cf.asset_life)
        /\ cf.asset_life.n \div cf.asset_life.d >= 1) =>
        LET n == cf.asset_life.n \div cf.asset_life.d
            decay(t) == PyMul(cf.gross_cash_flow,
                              PyPow(PySub(PInt(1), cf.fade_rate), t))
        IN  /\ Len(irr_in) = n + 1
            /\ irr_in[1] = PyNeg(cf.gross_investment)
            /\ \A t \in 0..(n - 2) : irr_in[t + 2] = decay(t)
            /\ irr_in[n + 1] =
                  PyAdd(decay(n - 1), PyMul(PFloat(1, 10), cf.gross_investment))
\* The solver was called with [-2, 1, 1/2 + 0.2] for a life of 2.5 periods.
C5_Witness ==
    /\ cf = CfroiFrame(PInt(1), PInt(2), PFloat(5, 2), PFloat(1, 2))
    /\ irr_in = <<PInt(-2), PFloat(1, 1), PFloat(7, 10)>>

\* C6: when all six required fields are present and nothing raises (and the
\* cost of capital is a number), run_valuation returns gross_investment =
\* (gross_assets - accumulated_depreciation) * inflation_adjustment,
\* gross_cash_flow = net_income + depreciation + 0.7 * interest_expense +
\* rent_expense, asset_life = calculate_asset_life(gross_assets, depreciation),
\* cfroi = what calculate_cfroi returned for exactly these three values and the
\* fade rate, and economic_profit = (cfroi - cost_of_capital) * gross_investment,
\* with the defaults 1.0, 0.04 and 0.08 for absent optional fields.
C6_Threading ==
    LET d   == company_data
        ia  == IF d.inflation_adjustment = Missing THEN PFloat(1, 1)
               ELSE d.inflation_adjustment
        fr  == IF d.fade_rate = Missing THEN PFloat(4, 100) ELSE d.fade_rate
        coc == IF d.cost_of_capital = Missing THEN PFloat(8, 100)
               ELSE d.cost_of_capital
        gi  == PyMul(PySub(d.gross_assets, d.accumulated_depreciation), ia)
        gcf == PyAdd(PyAdd(PyAdd(d.net_income, d.depreciation),
                           PyMul(PFloat(7, 10), d.interest_expense)),
                     d.rent_expense)
        al  == calculate_asset_life(d.gross_assets, d.depreciation)
        ep  == PyMul(PySub(cf_ret, coc), gi)
    IN  (/\ RvDone
         /\ \A f \in Required : d[f] # Missing
         /\ gi # Raise /\ gcf # Raise /\ al # Raise
         /\ cf_ret # Unset
         /\ IsNumber(coc) /\ ep # Raise) =>
            /\ result.gross_investment = gi
            /\ result.gross_cash_flow = gcf
            /\ result.asset_life = al
            /\ cf = [gross_cash_flow |-> gcf, gross_investment |-> gi,
                     asset_life |-> al, fade_rate |-> fr]
            /\ result.cfroi = cf_ret
            /\ result.economic_profit = ep
\* A run on the example with depreciation = 0 has returned cfroi = 0.0 next to
\* the computed gross investment 2.0 and gross cash flow 8.0.
C6_Witness ==
    /\ RvDone /\ company_data = [ExampleData EXCEPT !.depreciation = PInt(0)]
    /\ result.cfroi = Zero /\ result.asset_life = PInt(0)
    /\ result.gross_investment = PFloat(2, 1)
    /\ result.gross_cash_flow = PFloat(8, 1)
    /\ result.economic_profit = PFloat(-4, 25)

\* C7: calculate_asset_life on numbers never raises; it returns
\* gross_assets / depreciation when depreciation > 0 and 0 when
\* depreciation <= 0; and an asset life of 0 makes calculate_cfroi return 0.0
\* at its first statement, with no sequence built and no solver call.
C7_AssetLife ==
    /\ (pc = "done" /\ op = "calculate_asset_life"
            /\ IsNumber(given[1]) /\ IsNumber(given[2])) =>
          /\ ~raised
          /\ PyGt0(given[2]) => ret = PyDiv(given[1], given[2])
          /\ PyLe0(given[2]) => ret = PInt(0)
    /\ (RvDone /\ IsNumber(company_data.gross_assets)
            /\ IsNumber(company_data.depreciation) /\ asset_life # Unset) =>
          /\ PyGt0(company_data.depreciation) =>
                asset_life = PyDiv(company_data.gross_assets, company_data.depreciation)
          /\ PyLe0(company_data.depreciation) => asset_life = PInt(0)
    /\ (CfExited /\ Finite(cf.asset_life) /\ cf.asset_life.n = 0) =>
          cf_ret = Zero /\ cash_flows = <<>> /\ irr_in = <<>>
\* run_valuation with depreciation = 0 took asset_life = 0 and calculate_cfroi
\* returned 0.0 for it without calling the solver.
C7_Witness ==
    /\ RvDone /\ company_data.depreciation = PInt(0)
    /\ asset_life = PInt(0) /\ cf.asset_life = PInt(0)
    /\ cf_ret = Zero /\ irr_in = <<>>

\* C8: calculate_economic_profit returns 0.0, and does not raise, when cfroi
\* or cost_of_capital is not a number; when both are numbers it returns
\* (cfroi - cost_of_capital) * gross_investment.  So a run_valuation whose
\* cost_of_capital is not a number gets economic_profit = 0.0 from it and
\* returns its computed values, not the all-zero dict of a failure.
C8_TypeGuard ==
    /\ (pc = "done" /\ op = "calculate_economic_profit") =>
          /\ (~IsNumber(given[1]) \/ ~IsNumber(given[2])) => (ret = Zero /\ ~raised)
          /\ (IsNumber(given[1]) /\ IsNumber(given[2]) /\ IsNumber(given[3])) =>
                (ret = PyMul(PySub(given[1], given[2]), given[3]) /\ ~raised)
    /\ (RvDone /\ company_data.cost_of_capital = Str /\ cf_ret # Unset) =>
          /\ economic_profit = Zero
          /\ result = [cfroi |-> cfroi, economic_profit |-> Zero,
                       gross_investment |-> gross_investment,
                       gross_cash_flow |-> gross_cash_flow,
                       asset_life |-> asset_life]
\* A run with cost_of_capital a str has returned economic_profit = 0.0 beside
\* a positive cfroi and the computed gross cash flow.
C8_Witness ==
    /\ RvDone /\ company_data.cost_of_capital = Str
    /\ result.economic_profit = Zero /\ result.cfroi = PFloat(1, 10)
    /\ result.gross_cash_flow = PFloat(10, 1)

\* C9: self.inflation_rate keeps its initial value, run_valuation leaves the
\* caller's dict as it was passed, and a run_valuation given the same record as
\* an earlier one returns the same dict, whatever was called in between.
C9_Idempotent ==
    /\ inflation_rate = PFloat(2, 100)
    /\ op = "run_valuation" => company_data = given[1]
    /\ (RvDone /\ ref.set /\ given[1] = ref.input) => result = ref.result
\* A later run on the record of the remembered run, both through the solver.
C9_Witness ==
    /\ RvDone /\ ref.set /\ given[1] = ref.input /\ result = ref.result
    /\ irr_in # <<>> /\ ref.irr_in = irr_in /\ result.cfroi = PFloat(1, 10)

\* C10: for 0 < asset_life < 1 with positive gross_investment and
\* gross_cash_flow, calculate_cfroi does not return at its first statement, the
\* loop appends nothing, and the solver is called with the one-element sequence
\* [-gross_investment + 0.1 * gross_investment], i.e. -0.9 * gross_investment,
\* a negative number, for a finite investment.
C10_SubUnitLife ==
    (CfExited /\ CfPositive /\ Finite(cf.asset_life)
        /\ cf.asset_life.n < cf.asset_life.d) =>
        /\ Len(irr_in) = 1
        /\ year = 0
        /\ irr_in[1] = PyAdd(PyNeg(cf.gross_investment),
                             PyMul(PFloat(1, 10), cf.gross_investment))
        /\ Finite(cf.gross_investment) =>
              /\ NumEq(irr_in[1], PyMul(PFloat(-9, 10), cf.gross_investment))
              /\ PyLt0(irr_in[1])
\* A direct call with asset_life = 0.5 and gross_investment = 1 has called the
\* solver with [-0.9].
C10_Witness ==
    /\ pc = "done" /\ op = "calculate_cfroi"
    /\ given[3] = PFloat(1, 2) /\ given[2] = PInt(1)
    /\ irr_in = <<PFloat(-9, 10)>>

====
